---- MODULE Spec2Model ----
(***************************************************************************)
(* Model of the contour-image scripts of the borewell report generator:    *)
(*   generate_contour.py          (groundwater elevation variant)          *)
(*   generate_nitrate_contour.py  (nitrate concentration variant)          *)
(*                                                                         *)
(* One run of a script's main() is modelled stage by stage: file dialog,   *)
(* loading and cleaning of the table, interpolation grid, reprojection of  *)
(* the grid corners, bounds file, interpolation, gradient (elevation       *)
(* only), contour levels, rendering.                                       *)
(*                                                                         *)
(* Numbers.  Coordinates are whole metres.  Sample values, ranges,         *)
(* intervals and contour levels are integers in units of 0.001, so 1.0 is  *)
(* 1000 and the smallest interval 0.01 is 10; arithmetic is exact (the     *)
(* rounding of binary doubles is not modelled).  A pandas/numpy number     *)
(* that may be NaN is a record [k |-> "num" or "nan", v |-> Int].          *)
(***************************************************************************)
EXTENDS Integers, Sequences, FiniteSets

----------------------------------------------------------------------------
(* Bounds of the model *)

\* largest number of rows of an input table
MaxRows == 4
\* interpolated grid extremes lie within this distance (0.001 units) of the
\* sample extremes (cubic interpolation may over- or undershoot)
MaxOvershoot == 1
\* SpecLevels: v_min ranges over -MaxAbsMin..MaxAbsMin (0.001 units)
MaxAbsMin == 12
\* SpecLevels: every range width 0..MaxSmallRange is tried besides the
\* widths around the thresholds of the interval tables
MaxSmallRange == 21

\* grid resolution, the 100j of np.mgrid
GridN == 100

----------------------------------------------------------------------------
(* Numbers with NaN *)

Num(n) == [k |-> "num", v |-> n]
NaN == [k |-> "nan", v |-> 0]
IsNum(c) == c.k = "num"

SetMin(S) == CHOOSE x \in S : \A y \in S : x <= y
SetMax(S) == -SetMin({-x : x \in S})

\* numpy floor(a / b) and ceil(a / b) for b > 0, as integers
FloorDiv(a, b) == a \div b
CeilDiv(a, b) == -((-a) \div b)

\* Series.min() / Series.max(): NaN for an empty series (the series here
\* never hold NaN, they are taken after dropna)
SeriesMin(S) == IF S = {} THEN NaN ELSE Num(SetMin(S))
SeriesMax(S) == IF S = {} THEN NaN ELSE Num(SetMax(S))

----------------------------------------------------------------------------
(* Input tables *)

Variants == {"elevation", "nitrate"}

ElevationCol == "Groundwater Elevation mAHD"
NitrateCol == "Nitrate"
ValueCol(var) == IF var = "elevation" THEN ElevationCol ELSE NitrateCol
AllCols == {"Name", "Easting", "Northing", ElevationCol, NitrateCol}

\* Cell kinds of a spreadsheet cell as pandas reads it:
\*   "num"  a number                "str"  text that parses as a number
\*   "dash" the text '-'            "text" any other text
\*   "nan"  an empty cell
CNum(n) == [k |-> "num", v |-> n]
CStr(n) == [k |-> "str", v |-> n]
CDash == [k |-> "dash", v |-> 0]
CText == [k |-> "text", v |-> 0]
CEmpty == [k |-> "nan", v |-> 0]

\* Names are sequences of characters, so that substring search is computed.
NToc1A == [k |-> "text", s |-> <<"T", "O", "C", "1", "-", "A">>]
NToc1B == [k |-> "text", s |-> <<"X", "-", "T", "O", "C", "1">>]
NLower == [k |-> "text", s |-> <<"t", "o", "c", "1">>]
NOther == [k |-> "text", s |-> <<"M", "W", "4">>]
NEmpty == [k |-> "nan", s |-> <<>>]
NNumber == [k |-> "num", s |-> <<"7">>]

Row(n, e, no, v) == [Name |-> n, Easting |-> e, Northing |-> no, Value |-> v]

\* The candidate rows of an input file.  Rows 1-5 are the example scenario
\* of the specification (values 10, 12, 8, 14, 11); rows 6-9 have a cell
\* that is no number; rows 10-12 share the value 5.0.
RowPool ==
  << Row(NToc1A, CNum(0), CNum(0), CNum(10000)),
     Row(NToc1B, CNum(10), CNum(0), CNum(12000)),
     Row(NOther, CNum(0), CNum(10), CNum(8000)),
     Row(NToc1A, CNum(10), CNum(10), CStr(14000)),
     Row(NLower, CNum(5), CNum(5), CNum(11000)),
     Row(NEmpty, CNum(3), CNum(7), CDash),
     Row(NOther, CText, CNum(2), CNum(9000)),
     Row(NToc1A, CNum(4), CEmpty, CNum(9500)),
     Row(NOther, CNum(6), CNum(6), CText),
     Row(NNumber, CStr(7), CNum(1), CNum(5000)),
     Row(NOther, CNum(2), CNum(9), CNum(5000)),
     Row(NEmpty, CNum(9), CNum(4), CNum(5000)) >>

PoolIds == 1..Len(RowPool)

\* The header rows of the input files: a sheet of one of the two report
\* types, complete or with one column missing, and a sheet with both value
\* columns.
SheetHeaders(v) ==
  { ({"Name", "Easting", "Northing", v}) \ d :
      d \in {{}} \cup {{x} : x \in {"Name", "Easting", "Northing", v}} }

FileHeaders ==
  {AllCols} \cup SheetHeaders(ElevationCol) \cup SheetHeaders(NitrateCol)

\* An input file: the column headers it has and the rows it holds.
Files ==
  { [cols |-> c, idx |-> r] :
      c \in FileHeaders,
      r \in {s \in SUBSET PoolIds : Cardinality(s) <= MaxRows} }

----------------------------------------------------------------------------
(* Data frames *)

\* The cell of row i in column c of the file
FileCell(c, i) ==
  CASE c = "Name" -> RowPool[i].Name
    [] c = "Easting" -> RowPool[i].Easting
    [] c = "Northing" -> RowPool[i].Northing
    [] OTHER -> RowPool[i].Value

\* pd.read_excel followed by the strip of the headers
ReadExcel(file) ==
  [idx |-> file.idx,
   col |-> [c \in file.cols |-> [i \in file.idx |-> FileCell(c, i)]]]

EmptyDf == [idx |-> {}, col |-> [c \in {} |-> 0]]

\* df[mask]: the rows of df whose index is in keep
DfSelect(df, keep) ==
  [idx |-> df.idx \cap keep,
   col |-> [c \in DOMAIN df.col |-> [i \in df.idx \cap keep |-> df.col[c][i]]]]

\* str.contains(pat): pat occurs in s as a substring
Contains(s, pat) ==
  \E i \in 1..(Len(s) - Len(pat) + 1) : SubSeq(s, i, i + Len(pat) - 1) = pat

TOC1 == <<"T", "O", "C", "1">>

\* df['Name'].astype(str).str.contains('TOC1', na=False): an empty cell
\* becomes the text 'nan', a number its digits
NameMatchesAsStr(cell) ==
  Contains(IF cell.k = "nan" THEN <<"n", "a", "n">> ELSE cell.s, TOC1)

\* df['Name'].str.contains('TOC1', na=False): cells that are not text give
\* NaN, which na=False turns into False
NameMatches(cell) == cell.k = "text" /\ Contains(cell.s, TOC1)

\* pd.to_numeric(series, errors='coerce') on one cell
ToNumeric(cell) == IF cell.k \in {"num", "str"} THEN Num(cell.v) ELSE NaN


----------------------------------------------------------------------------
(* Sample Loader / Validator *)

\* The outcome of a stage that may raise: the value, or the exception
Ok(x) == [ok |-> TRUE, val |-> x, exc |-> "none"]
Raise(e) == [ok |-> FALSE, val |-> EmptyDf, exc |-> e]

\* generate_contour.py lines 35-36: the 'Name' filter
FilterName(df) ==
  IF "Name" \in DOMAIN df.col
       /\ \E i \in df.idx : NameMatchesAsStr(df.col["Name"][i])
  THEN DfSelect(df, {i \in df.idx : NameMatches(df.col["Name"][i])})
  ELSE df

\* generate_contour.py lines 38-40: rows without a value or with '-'
DropPlaceholder(df) ==
  IF ElevationCol \in DOMAIN df.col
  THEN LET d1 == DfSelect(df, {i \in df.idx : df.col[ElevationCol][i].k # "nan"})
       IN  DfSelect(d1, {i \in d1.idx : d1.col[ElevationCol][i].k # "dash"})
  ELSE df

\* df[c] = pd.to_numeric(df[c], errors='coerce') for the three columns in
\* turn; a column the table lacks raises KeyError
CoerceColumns(df, cs) ==
  IF \E c \in cs : c \notin DOMAIN df.col
  THEN Raise("KeyError")
  ELSE Ok([idx |-> df.idx,
           col |-> [c \in DOMAIN df.col |->
                      IF c \in cs
                      THEN [i \in df.idx |-> ToNumeric(df.col[c][i])]
                      ELSE df.col[c]]])

\* Mutant of DropNa: the value column is left out of the subset
DropNaCoordinates(df, cs) ==
  DfSelect(df, {i \in df.idx :
                  \A c \in cs \cap {"Easting", "Northing"} : df.col[c][i].k # "nan"})

\* df.dropna(subset=cs)
DropNa(df, cs) ==
  DfSelect(df, {i \in df.idx : \A c \in cs : df.col[c][i].k # "nan"})

Required(var) == {"Easting", "Northing", ValueCol(var)}

\* generate_contour.py lines 32-45
LoadElevation(file) ==
  LET d0 == DropPlaceholder(FilterName(ReadExcel(file)))
      r  == CoerceColumns(d0, Required("elevation"))
  IN  IF r.ok THEN Ok(DropNa(r.val, Required("elevation"))) ELSE r

\* generate_nitrate_contour.py lines 31-40
LoadNitrate(file) ==
  LET r == CoerceColumns(ReadExcel(file), Required("nitrate"))
  IN  IF r.ok THEN Ok(DropNa(r.val, Required("nitrate"))) ELSE r

LoadTable(var, file) ==
  IF var = "elevation" THEN LoadElevation(file) ELSE LoadNitrate(file)

\* The values of a cleaned numeric column
ColValues(df, c) == {df.col[c][i].v : i \in df.idx}

----------------------------------------------------------------------------
(* Grid Builder *)

\* Mutant of MgridAxis: the end point is excluded (step (hi-lo)/GridN)
MgridAxisExclusive(lo, hi) ==
  [i \in 0..(GridN - 1) |->
     IF IsNum(lo) /\ IsNum(hi)
     THEN Num((GridN - 1) * lo.v + ((i * (hi.v - lo.v) * (GridN - 1)) \div GridN))
     ELSE NaN]

\* One axis of np.mgrid[lo:hi:100j]: GridN points lo + i*(hi-lo)/(GridN-1),
\* both ends included.  The coordinates are kept in units of 1/(GridN-1) m
\* so that they stay integers; NaN ends give NaN everywhere.
MgridAxis(lo, hi) ==
  [i \in 0..(GridN - 1) |->
     IF IsNum(lo) /\ IsNum(hi)
     THEN Num((GridN - 1) * lo.v + i * (hi.v - lo.v))
     ELSE NaN]

\* lines 48-51
BuildGridOf(df) ==
  [x |-> MgridAxis(SeriesMin(ColValues(df, "Easting")),
                   SeriesMax(ColValues(df, "Easting"))),
   y |-> MgridAxis(SeriesMin(ColValues(df, "Northing")),
                   SeriesMax(ColValues(df, "Northing")))]

NoGrid == [x |-> << >>, y |-> << >>]

\* ndarray.min() / .max(): NaN as soon as one element is NaN
ArrayMin(a) ==
  IF \E i \in DOMAIN a : ~IsNum(a[i]) THEN NaN
  ELSE Num(SetMin({a[i].v : i \in DOMAIN a}))
ArrayMax(a) ==
  IF \E i \in DOMAIN a : ~IsNum(a[i]) THEN NaN
  ELSE Num(SetMax({a[i].v : i \in DOMAIN a}))

----------------------------------------------------------------------------
(* Coordinate Reprojector and bounds record *)

\* transformer.transform(x, y) of EPSG:32755 -> EPSG:4326 with
\* always_xy=True returns the pair (longitude, latitude).  The projection
\* itself is a library computation: its two results are kept as the terms
\* Lon(x, y) and Lat(x, y) of the point transformed.
Lon(x, y) == <<"lon", x, y>>
Lat(x, y) == <<"lat", x, y>>
TransformXY(x, y) == <<Lon(x, y), Lat(x, y)>>

\* lines 55-56: the corners of the grid
GridCorners(g) ==
  [min_easting |-> ArrayMin(g.x), max_easting |-> ArrayMax(g.x),
   min_northing |-> ArrayMin(g.y), max_northing |-> ArrayMax(g.y)]

\* lines 57-58: the points handed to the transformer, in call order
TransformCalls(g) ==
  LET c == GridCorners(g)
  IN  << <<c.min_easting, c.min_northing>>, <<c.max_easting, c.max_northing>> >>

\* Mutant of ReprojectCorners: the pair is unpacked latitude first
ReprojectCornersLatFirst(g) ==
  LET c == GridCorners(g)
      lo == TransformXY(c.min_easting, c.min_northing)
      hi == TransformXY(c.max_easting, c.max_northing)
  IN  [min_lon |-> lo[2], min_lat |-> lo[1], max_lon |-> hi[2], max_lat |-> hi[1]]

\* lines 57-58: min_lon, min_lat = transform(...); max_lon, max_lat = ...
ReprojectCorners(g) ==
  LET calls == TransformCalls(g)
      lo == TransformXY(calls[1][1], calls[1][2])
      hi == TransformXY(calls[2][1], calls[2][2])
  IN  [min_lon |-> lo[1], min_lat |-> lo[2], max_lon |-> hi[1], max_lat |-> hi[2]]

NoGeo == [min_lon |-> <<>>, min_lat |-> <<>>, max_lon |-> <<>>, max_lat |-> <<>>]

\* lines 60-65: bounds_dict, a dict keeps the order its keys were given in
BoundsDict(geo) ==
  << <<"min_lat", geo.min_lat>>, <<"min_lon", geo.min_lon>>,
     <<"max_lat", geo.max_lat>>, <<"max_lon", geo.max_lon>> >>

BoundsFile(var) ==
  IF var = "elevation" THEN "image_bounds.json" ELSE "nitrate_bounds.json"
ImageFile(var) == "groundwater_contour_true_scale.png"
FileNames == {"image_bounds.json", "nitrate_bounds.json",
              "groundwater_contour_true_scale.png"}
Absent == << >>


----------------------------------------------------------------------------
(* Scattered-Data Interpolator *)

\* The sample locations handed to griddata
Points(df) == {<<df.col["Easting"][i].v, df.col["Northing"][i].v>> : i \in df.idx}

Colinear(a, b, c) ==
  (b[1] - a[1]) * (c[2] - a[2]) = (b[2] - a[2]) * (c[1] - a[1])

\* griddata(method='cubic') triangulates the points first; the triangulation
\* raises QhullError when there is no triangle: fewer than three distinct
\* points, or all of them on one line
HasTriangle(P) == \E a \in P, b \in P, c \in P : ~Colinear(a, b, c)

\* The finite extremes (np.nanmin, np.nanmax) an interpolated grid may have
\* for samples with extremes smin..smax: the grid points are not the sample
\* points, and a cubic surface may leave the sample range
GridExtremes(smin, smax) ==
  { [lo |-> smin + a, hi |-> smax + b] :
      a \in (-MaxOvershoot)..MaxOvershoot, b \in (-MaxOvershoot)..MaxOvershoot }

NoRange == [lo |-> 0, hi |-> 0]

----------------------------------------------------------------------------
(* Contour Level Selector *)

\* Mutant of IntervalElevation: thresholds compared with >= instead of >
IntervalElevationInclusive(r) ==
  IF r >= 10000 THEN 1000
  ELSE IF r >= 5000 THEN 500
  ELSE IF r >= 2000 THEN 200
  ELSE IF r >= 1000 THEN 100
  ELSE IF r >= 500 THEN 50
  ELSE 10

\* generate_contour.py line 84 (0.001 units: 10 is 10000, 1.0 is 1000)
IntervalElevation(r) ==
  IF r > 10000 THEN 1000
  ELSE IF r > 5000 THEN 500
  ELSE IF r > 2000 THEN 200
  ELSE IF r > 1000 THEN 100
  ELSE IF r > 500 THEN 50
  ELSE 10

\* generate_nitrate_contour.py line 75
IntervalNitrate(r) ==
  IF r > 10000 THEN 1000
  ELSE IF r > 5000 THEN 500
  ELSE IF r > 2000 THEN 200
  ELSE 100

IntervalOf(var, r) ==
  IF var = "elevation" THEN IntervalElevation(r) ELSE IntervalNitrate(r)

\* Mutant of Arange: the stop value is produced as well
ArangeInclusive(start, stop, step) ==
  LET n == CeilDiv(stop - start, step) + 1
  IN  [i \in 1..(IF n > 0 THEN n ELSE 0) |-> start + (i - 1) * step]

\* np.arange(start, stop, step): ceil((stop - start) / step) values
\* start + i*step, the stop value itself is not produced
Arange(start, stop, step) ==
  LET n == CeilDiv(stop - start, step)
  IN  [i \in 1..(IF n > 0 THEN n ELSE 0) |-> start + (i - 1) * step]

\* Mutant of ContourLevels: the stop is not padded by one interval
ContourLevelsNoPad(vmin, vmax, interval) ==
  LET n == CeilDiv(vmax, interval) - FloorDiv(vmin, interval)
  IN  [i \in 1..(IF n > 0 THEN n ELSE 0) |->
         FloorDiv(vmin, interval) * interval + (i - 1) * interval]

\* lines 86-90 (77-81 in the nitrate script)
ContourLevels(vmin, vmax, interval) ==
  Arange(FloorDiv(vmin, interval) * interval,
         CeilDiv(vmax, interval) * interval + interval,
         interval)

\* The ranges the levels may be taken from: the extremes of the samples
\* (generate_contour.py line 82) or the finite extremes of the interpolated
\* grid (generate_nitrate_contour.py line 73)
ValueRanges(var, df) ==
  LET smin == SetMin(ColValues(df, ValueCol(var)))
      smax == SetMax(ColValues(df, ValueCol(var)))
  IN  IF var = "elevation"
      THEN {[lo |-> smin, hi |-> smax]}
      ELSE {g \in GridExtremes(smin, smax) : g.lo <= g.hi}

\* ax.contourf(..., levels=...) raises ValueError("Filled contours require
\* at least 2 levels.") for fewer than two levels
ContourfAccepts(lv) == Len(lv) >= 2

----------------------------------------------------------------------------
(* State *)

VARIABLES
  variant,      \* which script runs
  pc,           \* the stage the run is at
  exc,          \* the exception that ended the run, "none" otherwise
  file,         \* the table chosen in the file dialog
  df,           \* the data frame
  grid,         \* grid_x / grid_y, one axis each
  transformed,  \* the points handed to transformer.transform, in order
  geo,          \* min_lon, min_lat, max_lon, max_lat
  fs,           \* output_files/: file name -> content, or Absent
  interpolated, \* whether grid_z / grid_nitrate has been computed
  vrange,       \* z_min, z_max / n_min, n_max
  grad,         \* whether the gradient field has been computed
  interval,     \* the contour interval
  levels        \* the contour levels

scriptVars == <<variant, pc, exc, file, df, grid, transformed, geo, fs,
                interpolated, vrange, grad, interval, levels>>

\* The application (main.py) and the working directory its scripts share
VARIABLES
  step,         \* where the running report handler is: "idle" between clicks
  report,       \* the report type of the current handler run
  run,          \* the number of report runs started so far
  status_label, \* the text of the status label
  dialogs,      \* the message boxes main.py has shown in the current run
  returncode,   \* returncode of the image and of the maps script, this run
  disk,         \* working directory: file name -> who wrote it, or Absent
  opened,       \* the page handed to the browser in the current run
  proc          \* two contour scripts started side by side: stage of each

appVars == <<step, report, run, status_label, dialogs, returncode, disk,
             opened, proc>>

\* The surface griddata fits to the samples
VARIABLES
  surface       \* the shape of grid_z inside the convex hull of the samples

cellVars == <<surface>>

restVars == <<appVars, cellVars>>

vars == <<scriptVars, restVars>>

\* main.py lines 10-13
GENERATE_IMAGE_SCRIPT == "generate_image.py"
GENERATE_NITRATE_IMAGE_SCRIPT == "generate_image_nitrate.py"
GENERATE_MAPS_SCRIPT == "generate_maps.py"
INTERACTIVE_MAP_HTML == "interactive_map.html"

\* The report runs of one session of the application
MaxRuns == 2

\* The files of the working directory: output_files/ and the map page
AppFiles == FileNames \cup {INTERACTIVE_MAP_HTML}

\* No script has returned yet: returncode maps the scripts that have
NoCodes == [x \in {} |-> 0]
ExitedOk(x) == x \in DOMAIN returncode /\ returncode[x] = 0
Returned(rc, x, code) ==
  [y \in DOMAIN rc \cup {x} |-> IF y = x THEN code ELSE rc[y]]
NoProc == [v \in Variants |-> [pc |-> "off", run |-> 0]]

\* The window as main() builds it (status label text "Ready", line 135),
\* in a working directory that holds no output yet
AppInit ==
  /\ step = "idle"
  /\ report = "none"
  /\ run = 0
  /\ status_label = "Ready"
  /\ dialogs = << >>
  /\ returncode = NoCodes
  /\ disk = [f \in AppFiles |-> Absent]
  /\ opened = Absent
  /\ proc = NoProc

\* A surface c + a*i + b*j + q*i*j over the grid indices i, j
Poly(c, a, b, q) == [c |-> c, a |-> a, b |-> b, q |-> q]
Flat == Poly(0, 0, 0, 0)

RestInit == AppInit /\ surface = Flat

NoFile == [cols |-> {}, idx |-> {}]

Init ==
  /\ variant \in Variants
  /\ pc = "select"
  /\ exc = "none"
  /\ file = NoFile
  /\ df = EmptyDf
  /\ grid = NoGrid
  /\ transformed = << >>
  /\ geo = NoGeo
  /\ fs = [f \in FileNames |-> Absent]
  /\ interpolated = FALSE
  /\ vrange = NoRange
  /\ grad = FALSE
  /\ interval = 0
  /\ levels = << >>
  /\ RestInit

Fail(e) == pc' = "failed" /\ exc' = e

----------------------------------------------------------------------------
(* Stages of main() *)

\* select_file_gui, lines 15-25: the user picks a file
SelectFile ==
  /\ pc = "select"
  /\ \E f \in Files : file' = f
  /\ pc' = "load"
  /\ UNCHANGED <<variant, exc, df, grid, transformed, geo, fs, interpolated,
                 vrange, grad, interval, levels>>
  /\ UNCHANGED restVars

\* select_file_gui, lines 22-24: the dialog is cancelled, sys.exit(0)
CancelDialog ==
  /\ pc = "select"
  /\ pc' = "exit0"
  /\ UNCHANGED <<variant, exc, file, df, grid, transformed, geo, fs,
                 interpolated, vrange, grad, interval, levels>>
  /\ UNCHANGED restVars

\* lines 32-45 (31-40): read, filter, coerce, drop
Load ==
  /\ pc = "load"
  /\ LET r == LoadTable(variant, file)
     IN  IF r.ok
         THEN df' = r.val /\ pc' = "grid" /\ exc' = exc
         ELSE df' = df /\ Fail(r.exc)
  /\ UNCHANGED <<variant, file, grid, transformed, geo, fs, interpolated,
                 vrange, grad, interval, levels>>
  /\ UNCHANGED restVars

\* lines 48-51 (43-46)
BuildGrid ==
  /\ pc = "grid"
  /\ grid' = BuildGridOf(df)
  /\ pc' = "reproject"
  /\ UNCHANGED <<variant, exc, file, df, transformed, geo, fs, interpolated,
                 vrange, grad, interval, levels>>
  /\ UNCHANGED restVars

\* lines 54-58 (49-53)
Reproject ==
  /\ pc = "reproject"
  /\ transformed' = TransformCalls(grid)
  /\ geo' = ReprojectCorners(grid)
  /\ pc' = "bounds"
  /\ UNCHANGED <<variant, exc, file, df, grid, fs, interpolated, vrange,
                 grad, interval, levels>>
  /\ UNCHANGED restVars

\* lines 60-67 (55-62): json.dump of bounds_dict
WriteBounds ==
  /\ pc = "bounds"
  /\ fs' = [fs EXCEPT ![BoundsFile(variant)] = BoundsDict(geo)]
  /\ pc' = "interpolate"
  /\ UNCHANGED <<variant, exc, file, df, grid, transformed, geo,
                 interpolated, vrange, grad, interval, levels>>
  /\ UNCHANGED restVars

\* lines 70-75 (65-70): griddata
Interpolate ==
  /\ pc = "interpolate"
  /\ IF HasTriangle(Points(df))
     THEN /\ interpolated' = TRUE
          /\ pc' = IF variant = "elevation" THEN "gradient" ELSE "levels"
          /\ exc' = exc
     ELSE interpolated' = interpolated /\ Fail("QhullError")
  /\ UNCHANGED <<variant, file, df, grid, transformed, geo, fs, vrange, grad,
                 interval, levels>>
  /\ UNCHANGED restVars

\* generate_contour.py lines 77-80: np.gradient and the unit vectors
Gradient ==
  /\ pc = "gradient"
  /\ grad' = TRUE
  /\ pc' = "levels"
  /\ UNCHANGED <<variant, exc, file, df, grid, transformed, geo, fs,
                 interpolated, vrange, interval, levels>>
  /\ UNCHANGED restVars

\* lines 82-90 (73-81): range, interval, levels
SelectLevels ==
  /\ pc = "levels"
  /\ \E r \in ValueRanges(variant, df) :
       /\ vrange' = r
       /\ interval' = IntervalOf(variant, r.hi - r.lo)
       /\ levels' = ContourLevels(r.lo, r.hi, IntervalOf(variant, r.hi - r.lo))
  /\ pc' = "render"
  /\ UNCHANGED <<variant, exc, file, df, grid, transformed, geo, fs,
                 interpolated, grad>>
  /\ UNCHANGED restVars

\* lines 92-109 (84-115): contourf, scatter, rectangle, savefig
Render ==
  /\ pc = "render"
  /\ IF ContourfAccepts(levels)
     THEN /\ fs' = [fs EXCEPT ![ImageFile(variant)] =
                      <<"image", variant, levels>>]
          /\ pc' = "done"
          /\ exc' = exc
     ELSE fs' = fs /\ Fail("ValueError")
  /\ UNCHANGED <<variant, file, df, grid, transformed, geo, interpolated,
                 vrange, grad, interval, levels>>
  /\ UNCHANGED restVars

Next ==
  \/ SelectFile
  \/ CancelDialog
  \/ Load
  \/ BuildGrid
  \/ Reproject
  \/ WriteBounds
  \/ Interpolate
  \/ Gradient
  \/ SelectLevels
  \/ Render

Spec == Init /\ [][Next]_vars


----------------------------------------------------------------------------
(* The level selector on its own: the run from the level selector on, for  *)
(* a cleaned sample set with any value range.                              *)

Thresholds == {500, 1000, 2000, 5000, 10000}

RangeWidths ==
  (0..MaxSmallRange) \cup {6000}
    \cup {t + d : t \in Thresholds, d \in {-1, 0, 1}}

RangeMins == ((-MaxAbsMin)..MaxAbsMin) \cup {-3000, 5000, 8000}

\* Three samples at the corners of a triangle, with values lo, hi, hi,
\* cleaned as the loader leaves them
SampleDf(var, lo, hi) ==
  [idx |-> {1, 2, 3},
   col |-> [c \in Required(var) |->
              [i \in {1, 2, 3} |->
                 IF c = "Easting" THEN ToNumeric(RowPool[i].Easting)
                 ELSE IF c = "Northing" THEN ToNumeric(RowPool[i].Northing)
                 ELSE Num(IF i = 1 THEN lo ELSE hi)]]]

LevelsInit ==
  /\ variant \in Variants
  /\ \E lo \in RangeMins, w \in RangeWidths :
       df = SampleDf(variant, lo, lo + w)
  /\ pc = "levels"
  /\ exc = "none"
  /\ file = [cols |-> Required(variant), idx |-> {1, 2, 3}]
  /\ grid = BuildGridOf(df)
  /\ transformed = TransformCalls(grid)
  /\ geo = ReprojectCorners(grid)
  /\ fs = [f \in FileNames |->
             IF f = BoundsFile(variant) THEN BoundsDict(geo) ELSE Absent]
  /\ interpolated = TRUE
  /\ vrange = NoRange
  /\ grad = (variant = "elevation")
  /\ interval = 0
  /\ levels = << >>
  /\ RestInit

LevelsNext ==
  \/ SelectLevels
  \/ Render

SpecLevels == LevelsInit /\ [][LevelsNext]_vars

----------------------------------------------------------------------------
(* Interpolator and Gradient Estimator, cell by cell                       *)

\* The samples a surface is fitted to
MaxSamples == 3

GridIdx == 0..(GridN - 1)

\* Twice the signed area of the triangle a, b, p
Orient(a, b, p) ==
  (b[1] - a[1]) * (p[2] - a[2]) - (b[2] - a[2]) * (p[1] - a[1])

InTriangle(t, p) ==
  LET d1 == Orient(t[1], t[2], p)
      d2 == Orient(t[2], t[3], p)
      d3 == Orient(t[3], t[1], p)
  IN  ~((d1 < 0 \/ d2 < 0 \/ d3 < 0) /\ (d1 > 0 \/ d2 > 0 \/ d3 > 0))

Before(a, b) == a[1] < b[1] \/ (a[1] = b[1] /\ a[2] < b[2])

\* The triangles on the sample points, in the units of the grid axes
Triangles(P) ==
  LET Q == {<<(GridN - 1) * p[1], (GridN - 1) * p[2]>> : p \in P}
  IN  {t \in Q \X Q \X Q :
         Before(t[1], t[2]) /\ Before(t[2], t[3]) /\ ~Colinear(t[1], t[2], t[3])}

SurfaceAt(s, i, j) == s.c + s.a * i + s.b * j + s.q * i * j

\* griddata(..., method='cubic'), lines 70-75: a value at every grid point
\* that lies in a triangle of the samples (the triangles of a triangulation
\* cover their convex hull), NaN (the fill value) at every other grid point
GridZ(d, g, s) ==
  LET T == Triangles(Points(d))
  IN  [i \in GridIdx |-> [j \in GridIdx |->
         IF \E t \in T : InTriangle(t, <<g.x[i].v, g.y[j].v>>)
         THEN Num(SurfaceAt(s, i, j))
         ELSE NaN]]

\* Mutant of Sub: an undefined operand counts as zero
SubNanAsZero(a, b) ==
  Num((IF IsNum(a) THEN a.v ELSE 0) - (IF IsNum(b) THEN b.v ELSE 0))

\* Floating-point subtraction: NaN as soon as one operand is NaN
Sub(a, b) == IF IsNum(a) /\ IsNum(b) THEN Num(a.v - b.v) ELSE NaN

Twice(a) == IF IsNum(a) THEN Num(2 * a.v) ELSE NaN

\* np.gradient along one axis with unit spacing, line 77: central
\* differences (a[k+1] - a[k-1]) / 2 inside, one-sided differences
\* a[1] - a[0] and a[n-1] - a[n-2] at the two ends.  Kept doubled, so that
\* the values stay integers.
GradientAxis(a, k) ==
  IF k = 0 THEN Twice(Sub(a[1], a[0]))
  ELSE IF k = GridN - 1 THEN Twice(Sub(a[GridN - 1], a[GridN - 2]))
  ELSE Sub(a[k + 1], a[k - 1])

\* dz_dx, dz_dy = np.gradient(grid_z): along axis 0 and along axis 1
Transpose(gz) == [j \in GridIdx |-> [i \in GridIdx |-> gz[i][j]]]
DzDx(gz) ==
  LET t == Transpose(gz)
  IN  [i \in GridIdx |-> [j \in GridIdx |-> GradientAxis(t[j], i)]]
DzDy(gz) ==
  [i \in GridIdx |-> [j \in GridIdx |-> GradientAxis(gz[i], j)]]

\* magnitude = np.sqrt(dz_dx**2 + dz_dy**2), line 78, kept as its square
MagnitudeSq(dx, dy) ==
  IF IsNum(dx) /\ IsNum(dy) THEN Num(dx.v * dx.v + dy.v * dy.v) ELSE NaN

\* -d / (magnitude + 1e-10), lines 79-80: the number num / (sqrt(den2) + e)
\* with e = 2e-10 in the doubled units, so that the denominator is never zero
Normalised(dd, m2) ==
  IF IsNum(dd) /\ IsNum(m2)
  THEN [k |-> "num", num |-> -dd.v, den2 |-> m2.v]
  ELSE [k |-> "nan", num |-> 0, den2 |-> 0]

\* The arrays of lines 70-80, for the samples, grid and surface of the state
Field(d, g, s) ==
  LET gz == GridZ(d, g, s)
      dx == DzDx(gz)
      dy == DzDy(gz)
  IN  [i \in GridIdx |-> [j \in GridIdx |->
         LET m2 == MagnitudeSq(dx[i][j], dy[i][j])
         IN  [z |-> gz[i][j],
              u |-> Normalised(dx[i][j], m2),
              v |-> Normalised(dy[i][j], m2)]]]

\* The shapes a fitted surface is drawn from: flat, and a saddle
Surfaces == {Flat, Poly(7, 3, -4, 1)}

\* The rows of the pool that are numbers in every column
CleanRows ==
  {i \in PoolIds : /\ RowPool[i].Easting.k = "num"
                   /\ RowPool[i].Northing.k = "num"
                   /\ RowPool[i].Value.k = "num"}

\* Samples at the coordinates of the rows S, all named TOC1, cleaned as the
\* loader leaves them
HullDf(S) ==
  [idx |-> S,
   col |-> [c \in Required("elevation") |->
              [i \in S |->
                 IF c = "Easting" THEN ToNumeric(RowPool[i].Easting)
                 ELSE IF c = "Northing" THEN ToNumeric(RowPool[i].Northing)
                 ELSE IF c = "Name" THEN NToc1A
                 ELSE ToNumeric(RowPool[i].Value)]]]

\* The elevation script with the bounds file written, about to interpolate
GradientInit ==
  /\ variant = "elevation"
  /\ \E S \in {r \in SUBSET CleanRows :
                 Cardinality(r) >= 2 /\ Cardinality(r) <= MaxSamples} :
       /\ df = HullDf(S)
       /\ file = [cols |-> Required(variant), idx |-> S]
  /\ surface \in Surfaces
  /\ pc = "interpolate"
  /\ exc = "none"
  /\ grid = BuildGridOf(df)
  /\ transformed = TransformCalls(grid)
  /\ geo = ReprojectCorners(grid)
  /\ fs = [f \in FileNames |->
             IF f = BoundsFile(variant) THEN BoundsDict(geo) ELSE Absent]
  /\ interpolated = FALSE
  /\ vrange = NoRange
  /\ grad = FALSE
  /\ interval = 0
  /\ levels = << >>
  /\ AppInit

GradientNext ==
  \/ Interpolate
  \/ Gradient

SpecGradient == GradientInit /\ [][GradientNext]_vars

----------------------------------------------------------------------------
(* Properties of the gradient field (checked under SpecGradient)           *)

Finite(w) == w.k = "num"

\* C13: at every grid cell the vector (u, v) is either finite in both
\* components with magnitude at most 1, or undefined; it is undefined at
\* every cell whose interpolated value is undefined.  With u = nu / d and
\* v = nv / d, d = sqrt(den2) + e, the magnitude is at most 1 exactly when
\* nu*nu + nv*nv <= den2: the numbers are integers and e is far below 1.
C13_UnitOrUndefined ==
  grad =>
    LET F == Field(df, grid, surface)
    IN  \A i \in GridIdx, j \in GridIdx :
          LET c == F[i][j]
          IN  /\ (Finite(c.u) \/ Finite(c.v)) =>
                   /\ Finite(c.u) /\ Finite(c.v)
                   /\ c.u.den2 = c.v.den2
                   /\ c.u.num * c.u.num + c.v.num * c.v.num <= c.u.den2
              /\ ~IsNum(c.z) => (~Finite(c.u) /\ ~Finite(c.v))

C13_Witness ==
  /\ grad
  /\ LET F == Field(df, grid, surface)
     IN  /\ \E i \in GridIdx, j \in GridIdx : ~IsNum(F[i][j].z)
         /\ \E i \in GridIdx, j \in GridIdx :
              /\ IsNum(F[i][j].z)
              /\ ~Finite(F[i][j].u)
         /\ \E i \in GridIdx, j \in GridIdx :
              /\ Finite(F[i][j].u)
              /\ F[i][j].u.den2 > 0

----------------------------------------------------------------------------
(* The application: main.py, with its scripts as subprocesses              *)

\* What a run of a contour script leaves behind, as main.py sees it: its
\* return code and the files it wrote.  generate_contour.py and
\* generate_nitrate_contour.py end in one of four ways: the file dialog was
\* cancelled (sys.exit(0), nothing written); an exception before the bounds
\* file is written; an exception after it (griddata, contourf); or the image
\* saved.  generate_image.py and generate_image_nitrate.py, the names main.py
\* starts, are empty files: they exit with 0 and write nothing, which is the
\* first outcome.
ImageOutcomes(v) ==
  { [code |-> 0, wrote |-> {}],
    [code |-> 1, wrote |-> {}],
    [code |-> 1, wrote |-> {BoundsFile(v)}],
    [code |-> 0, wrote |-> {BoundsFile(v), ImageFile(v)}] }

\* generate_maps.py: the KMZ dialog cancelled (sys.exit(0)), an exception
\* (Earth Engine, the KMZ, an image path that holds no file), or the page
\* saved with the image found at the fixed image path
MapsOutcomes(d) ==
  { [code |-> 0, wrote |-> {}],
    [code |-> 1, wrote |-> {}] }
  \cup (IF d[ImageFile("elevation")] # Absent
        THEN {[code |-> 0, wrote |-> {INTERACTIVE_MAP_HTML}]}
        ELSE {})

\* The content a run leaves in a file: who wrote it, and for the map page
\* the image it embeds
Written(f, r, v, d) ==
  IF f = INTERACTIVE_MAP_HTML
  THEN [run |-> r, image |-> d[ImageFile("elevation")]]
  ELSE [run |-> r, variant |-> v]

WriteAll(d, files, r, v) ==
  [f \in DOMAIN d |-> IF f \in files THEN Written(f, r, v, d) ELSE d[f]]

ImageScript(v) ==
  IF v = "elevation" THEN GENERATE_IMAGE_SCRIPT
                     ELSE GENERATE_NITRATE_IMAGE_SCRIPT

\* Mutant of Raises: check=False, no return code raises
RaisesUnchecked(code) == FALSE
\* subprocess.run(..., check=True) raises CalledProcessError on a non-zero
\* return code
Raises(code) == code # 0

\* The except clauses and the finally clause: one error dialog, status reset
Except(title) ==
  /\ dialogs' = Append(dialogs, title)
  /\ status_label' = "Ready"
  /\ step' = "idle"

\* A click on one of the two report buttons: the handler starts
StartReport(v) ==
  /\ step = "idle"
  /\ run < MaxRuns
  /\ run' = run + 1
  /\ report' = v
  /\ status_label' = "Step 1/3: Generating contour image..."
  /\ step' = "image"
  /\ dialogs' = << >>
  /\ returncode' = NoCodes
  /\ opened' = Absent
  /\ UNCHANGED <<disk, proc, scriptVars, cellVars>>

\* subprocess.run cannot start "python": FileNotFoundError
PythonNotFound ==
  /\ step \in {"image", "maps"}
  /\ Except("Error")
  /\ UNCHANGED <<report, run, returncode, disk, opened, proc, scriptVars, cellVars>>

\* Step 1: the image script runs to its end
RunImageScript ==
  /\ step = "image"
  /\ \E o \in ImageOutcomes(report) :
       /\ disk' = WriteAll(disk, o.wrote, run, report)
       /\ returncode' = Returned(returncode, ImageScript(report), o.code)
       /\ IF Raises(o.code)
          THEN Except("Execution Error")
          ELSE /\ status_label' = "Step 2/3: Generating interactive maps..."
               /\ step' = "maps"
               /\ UNCHANGED dialogs
  /\ UNCHANGED <<report, run, opened, proc, scriptVars, cellVars>>

\* Step 2: the maps script runs to its end
RunMapsScript ==
  /\ step = "maps"
  /\ \E o \in MapsOutcomes(disk) :
       /\ disk' = WriteAll(disk, o.wrote, run, report)
       /\ returncode' = Returned(returncode, GENERATE_MAPS_SCRIPT, o.code)
       /\ IF Raises(o.code)
          THEN Except("Execution Error")
          ELSE /\ status_label' = "Step 3/3: Opening report..."
               /\ step' = "open"
               /\ UNCHANGED dialogs
  /\ UNCHANGED <<report, run, opened, proc, scriptVars, cellVars>>

\* Step 3: open the page if it exists, then the finally clause
OpenReport ==
  /\ step = "open"
  /\ IF disk[INTERACTIVE_MAP_HTML] # Absent
     THEN /\ opened' = disk[INTERACTIVE_MAP_HTML]
          /\ dialogs' = Append(dialogs, "Report Ready")
     ELSE /\ dialogs' = Append(dialogs, "File Not Found")
          /\ UNCHANGED opened
  /\ status_label' = "Ready"
  /\ step' = "idle"
  /\ UNCHANGED <<report, run, returncode, disk, proc, scriptVars, cellVars>>

AppNext ==
  \/ \E v \in Variants : StartReport(v)
  \/ PythonNotFound
  \/ RunImageScript
  \/ RunMapsScript
  \/ OpenReport

ScriptInit ==
  /\ variant = "elevation"
  /\ pc = "select"
  /\ exc = "none"
  /\ file = NoFile
  /\ df = EmptyDf
  /\ grid = NoGrid
  /\ transformed = << >>
  /\ geo = NoGeo
  /\ fs = [f \in FileNames |-> Absent]
  /\ interpolated = FALSE
  /\ vrange = NoRange
  /\ grad = FALSE
  /\ interval = 0
  /\ levels = << >>

InitApp == ScriptInit /\ RestInit

SpecApp == InitApp /\ [][AppNext]_vars

----------------------------------------------------------------------------
(* The two contour scripts started side by side in one working directory   *)

\* The stages of a script that touch output_files/: "start" until the bounds
\* file is written, "bounds" from then until the image is saved
PairFrame ==
  UNCHANGED <<step, report, run, status_label, dialogs, returncode, opened,
              scriptVars, cellVars>>

Tag(v) == [run |-> proc[v].run, variant |-> v]

\* python generate_contour.py / python generate_nitrate_contour.py
PairStart(v) ==
  /\ proc[v].pc = "off"
  /\ proc[v].run < MaxRuns
  /\ proc' = [proc EXCEPT ![v] = [pc |-> "start", run |-> @.run + 1]]
  /\ UNCHANGED disk
  /\ PairFrame

\* json.dump(bounds_dict, f)
PairWriteBounds(v) ==
  /\ proc[v].pc = "start"
  /\ disk' = [disk EXCEPT ![BoundsFile(v)] = Tag(v)]
  /\ proc' = [proc EXCEPT ![v].pc = "bounds"]
  /\ PairFrame

\* plt.savefig(...), the last statement of main()
PairSavefig(v) ==
  /\ proc[v].pc = "bounds"
  /\ disk' = [disk EXCEPT ![ImageFile(v)] = Tag(v)]
  /\ proc' = [proc EXCEPT ![v].pc = "off"]
  /\ PairFrame

\* The script ends early: the dialog cancelled, or an exception
PairExit(v) ==
  /\ proc[v].pc \in {"start", "bounds"}
  /\ proc' = [proc EXCEPT ![v].pc = "off"]
  /\ UNCHANGED disk
  /\ PairFrame

PairNext ==
  \/ \E v \in Variants : PairStart(v)
  \/ \E v \in Variants : PairWriteBounds(v)
  \/ \E v \in Variants : PairSavefig(v)
  \/ \E v \in Variants : PairExit(v)

SpecPair == InitApp /\ [][PairNext]_vars

----------------------------------------------------------------------------
(* Properties of the output files of several runs (checked under SpecPair) *)

\* C11 as claimed: no output file written by a run of one report type is
\* overwritten by a run of the other type, whatever the interleaving.
C11_Original ==
  [][\A f \in FileNames :
       (disk[f] # Absent /\ disk'[f] # disk[f])
         => disk'[f].variant = disk[f].variant]_vars

----------------------------------------------------------------------------
(* Properties of the report handlers (checked under SpecApp)               *)

Range(q) == {q[i] : i \in DOMAIN q}
ErrorTitles == {"Error", "Execution Error", "File Not Found"}
ErrorDialogs == {i \in DOMAIN dialogs : dialogs[i] \in ErrorTitles}

\* C14: in a report handler the maps script is started only after the image
\* script returned 0, the page is opened and "Report Ready" shown only after
\* both scripts returned 0, at most one error dialog is shown per run, and
\* whenever the handler has returned the status label reads "Ready".
C14_StepsInOrder ==
  /\ step \in {"maps", "open"} => ExitedOk(ImageScript(report))
  /\ GENERATE_MAPS_SCRIPT \in DOMAIN returncode => ExitedOk(ImageScript(report))
  /\ step = "open" => ExitedOk(GENERATE_MAPS_SCRIPT)
  /\ ("Report Ready" \in Range(dialogs) \/ opened # Absent)
       => /\ ExitedOk(ImageScript(report))
          /\ ExitedOk(GENERATE_MAPS_SCRIPT)
          /\ step = "idle"
  /\ Cardinality(ErrorDialogs) <= 1
  /\ step = "idle" => status_label = "Ready"
  /\ step = "image" => DOMAIN returncode = {}

C14_Witness ==
  /\ run = MaxRuns
  /\ step = "idle"
  /\ dialogs = <<"Report Ready">>
  /\ opened # Absent

\* C15 as claimed: a run that shows "Report Ready" opens a page that the
\* maps script of the same run wrote, from the image the image script of the
\* same run wrote.
C15_Original ==
  "Report Ready" \in Range(dialogs)
    => /\ opened.run = run
       /\ opened.image.run = run
       /\ opened.image.variant = report




----------------------------------------------------------------------------
(* Properties of the contour level selector (checked under SpecLevels)     *)

\* The range the level selector works on, once the levels are selected
Selected == pc \in {"render", "done"} \/ (pc = "failed" /\ exc = "ValueError")
VMin == vrange.lo
VMax == vrange.hi
Width == VMax - VMin

\* The interval tables of the specification, read from the smallest tier up
TableElevation(r) ==
  CASE r <= 500 -> 10
    [] r > 500 /\ r <= 1000 -> 50
    [] r > 1000 /\ r <= 2000 -> 100
    [] r > 2000 /\ r <= 5000 -> 200
    [] r > 5000 /\ r <= 10000 -> 500
    [] r > 10000 -> 1000

TableNitrate(r) ==
  CASE r <= 2000 -> 100
    [] r > 2000 /\ r <= 5000 -> 200
    [] r > 5000 /\ r <= 10000 -> 500
    [] r > 10000 -> 1000

\* C1: in both variants the contour interval is the variant's lookup table
\* applied to the range width v_max - v_min, with strict thresholds: a width
\* equal to a threshold selects the next smaller tier.
C1_IntervalTable ==
  Selected =>
    interval = IF variant = "elevation" THEN TableElevation(Width)
               ELSE TableNitrate(Width)

\* C1 witness: a width of exactly 10 selected 0.5 in the elevation variant
\* and a width of exactly 2 selected 0.1 in the nitrate variant is seen too
C1_Witness ==
  /\ pc = "render"
  /\ variant = "elevation"
  /\ Width = 10000
  /\ interval = 500

Last(sq) == sq[Len(sq)]

\* C2: the emitted level sequence is non-empty, strictly ascending, starts
\* at or below v_min and ends at or above v_max.
C2_LevelsCoverRange ==
  Selected =>
    /\ Len(levels) >= 1
    /\ \A i \in 1..(Len(levels) - 1) : levels[i] < levels[i + 1]
    /\ levels[1] <= VMin
    /\ Last(levels) >= VMax

\* C2 witness: levels that start strictly below v_min and end strictly
\* above v_max
C2_Witness ==
  /\ pc = "render"
  /\ Len(levels) >= 3
  /\ levels[1] < VMin
  /\ Last(levels) > VMax

C4_Original ==
  (Selected /\ variant = "elevation"
     /\ Cardinality(ColValues(df, ElevationCol)) = 1) =>
    /\ interval = 10
    /\ Len(levels) >= 2
    /\ \E i \in 1..Len(levels) : levels[i] = VMin
    /\ \E i \in 1..Len(levels) : levels[i] = VMin + 10


----------------------------------------------------------------------------
(* Properties of the loader, the grid and the bounds (checked under Spec)  *)

AfterLoad == {"grid", "reproject", "bounds", "interpolate", "gradient",
              "levels", "render", "done"}
AfterGrid == AfterLoad \ {"grid"}
AfterBounds == AfterGrid \ {"reproject", "bounds"}

\* The loader returned a data frame / the grid exists / the bounds file
\* has been written
Loaded == pc \in AfterLoad \/ (pc = "failed" /\ exc # "KeyError")
GridBuilt == pc \in AfterGrid \/ (pc = "failed" /\ exc # "KeyError")
BoundsWritten == pc \in AfterBounds \/ (pc = "failed" /\ exc # "KeyError")

NoArtifact == \A f \in FileNames : fs[f] = Absent

\* A cell holds a number: a numeric cell, or text that reads as a number
NumericCell(cell) == cell.k = "num" \/ cell.k = "str"
NumericRow(var, i) == \A c \in Required(var) : NumericCell(FileCell(c, i))

\* The rows of the file whose Name is text containing TOC1
Tagged == {i \in file.idx : "Name" \in file.cols /\ RowPool[i].Name.k = "text"
                              /\ Contains(RowPool[i].Name.s, TOC1)}
\* The rows the presence-of-any-match policy retains
Retained == IF Tagged # {} THEN Tagged ELSE file.idx

\* C5 as claimed: in both variants the loader retains exactly the rows
\* whose Name contains TOC1 when there is such a row, and all rows
\* otherwise (the rows that reach the grid builder are the numeric rows
\* among the retained ones).
C5_Original ==
  Loaded => df.idx = {i \in Retained : NumericRow(variant, i)}

\* The rows of the table after the Name filter of the variant
FilteredIdx ==
  IF variant = "elevation" THEN FilterName(ReadExcel(file)).idx ELSE file.idx

\* C6: a row of the filtered table reaches the grid builder iff its
\* Easting, Northing and value cells all hold numbers, and every surviving
\* sample has the three fields non-null.
C6_OnlyNumericRows ==
  Loaded =>
    /\ df.idx = {i \in FilteredIdx : NumericRow(variant, i)}
    /\ \A i \in df.idx : \A c \in Required(variant) : IsNum(df.col[c][i])

\* C6 witness: a table with a '-' row, a text row and an empty cell row
\* was cleaned and rows survived, one of them with a value given as text
C6_Witness ==
  /\ pc = "grid"
  /\ \E i \in FilteredIdx : FileCell(ValueCol(variant), i).k = "dash"
  /\ \E i \in FilteredIdx : FileCell("Easting", i).k = "text"
  /\ \E i \in df.idx : FileCell(ValueCol(variant), i).k = "str"
  /\ df.idx # FilteredIdx

\* The code has no ValidationError class: the KeyError the loader raises
\* for a missing column is taken as the validation failure.
IsValidationError(e) == e \in {"ValidationError", "KeyError"}

\* C7 as claimed: if a required column is absent or zero rows remain after
\* cleaning, the run fails with a validation error before any grid is
\* built and before any output file is written.
C7_Original ==
  ((pc = "failed" /\ exc = "KeyError") \/ (Loaded /\ df.idx = {})) =>
    /\ grid = NoGrid
    /\ NoArtifact
    /\ pc # "done"
    /\ pc = "failed" => IsValidationError(exc)

\* At least 4 samples that are not all on one line
Sufficient(P) == Cardinality(P) >= 4 /\ HasTriangle(P)

\* C8 as claimed: with a validated (non-empty) sample set of fewer than 4
\* non-colinear samples the run fails with InsufficientDataError; it never
\* emits an output file.
C8_Original ==
  (Loaded /\ df.idx # {} /\ ~Sufficient(Points(df))) =>
    /\ NoArtifact
    /\ pc # "done"
    /\ pc = "failed" => exc = "InsufficientDataError"

EastingMin == SetMin(ColValues(df, "Easting"))
EastingMax == SetMax(ColValues(df, "Easting"))
NorthingMin == SetMin(ColValues(df, "Northing"))
NorthingMax == SetMax(ColValues(df, "Northing"))
\* a coordinate in metres in the unit of the grid axes
GridUnits(m) == Num((GridN - 1) * m)

EvenlySpaced(axis, lo, hi) ==
  /\ DOMAIN axis = 0..(GridN - 1)
  /\ axis[0] = GridUnits(lo)
  /\ axis[GridN - 1] = GridUnits(hi)
  /\ \A i \in 0..(GridN - 2) : axis[i + 1].v - axis[i].v = hi - lo

\* C9: for a non-empty sample set the grid has 100 evenly spaced
\* coordinates per axis from the sample minimum to the sample maximum, and
\* the two points handed to the reprojector are the grid corners
\* (min Easting, min Northing) and (max Easting, max Northing).
C9_GridCorners ==
  (GridBuilt /\ df.idx # {}) =>
    /\ EvenlySpaced(grid.x, EastingMin, EastingMax)
    /\ EvenlySpaced(grid.y, NorthingMin, NorthingMax)
    /\ GridCorners(grid) =
         [min_easting |-> GridUnits(EastingMin), max_easting |-> GridUnits(EastingMax),
          min_northing |-> GridUnits(NorthingMin), max_northing |-> GridUnits(NorthingMax)]
    /\ pc # "reproject" =>
         transformed = << <<GridUnits(EastingMin), GridUnits(NorthingMin)>>,
                          <<GridUnits(EastingMax), GridUnits(NorthingMax)>> >>

\* C9 witness: the corners were handed over and neither is a sample point
C9_Witness ==
  /\ pc = "bounds"
  /\ df.idx # {}
  /\ EastingMin < EastingMax
  /\ NorthingMin < NorthingMax
  /\ <<EastingMin, NorthingMin>> \notin Points(df)
  /\ <<EastingMax, NorthingMax>> \notin Points(df)
  /\ Len(transformed) = 2

\* C10: exactly two points are transformed, the grid's minimum and maximum
\* corner; the bounds record has exactly the fields min_lat, min_lon,
\* max_lat, max_lon, with (min_lon, min_lat) the image of the minimum
\* corner and (max_lon, max_lat) the image of the maximum corner.
C10_BoundsRecord ==
  BoundsWritten =>
    LET c == GridCorners(grid)
    IN  /\ transformed = << <<c.min_easting, c.min_northing>>,
                            <<c.max_easting, c.max_northing>> >>
        /\ fs[BoundsFile(variant)] =
             << <<"min_lat", Lat(c.min_easting, c.min_northing)>>,
                <<"min_lon", Lon(c.min_easting, c.min_northing)>>,
                <<"max_lat", Lat(c.max_easting, c.max_northing)>>,
                <<"max_lon", Lon(c.max_easting, c.max_northing)>> >>

\* C10 witness: a bounds record written for a grid whose corners differ in
\* both coordinates
C10_Witness ==
  /\ pc = "interpolate"
  /\ fs[BoundsFile(variant)] # Absent
  /\ IsNum(GridCorners(grid).min_easting)
  /\ GridCorners(grid).min_easting # GridCorners(grid).max_easting
  /\ GridCorners(grid).min_northing # GridCorners(grid).max_northing


----------------------------------------------------------------------------
(* Order of the stages of one run (checked under Spec)                     *)

\* C12 as claimed: the stages run in the order Loader, Grid Builder,
\* Interpolator, (Gradient Estimator, Contour Level Selector), Reprojector,
\* Emitter: the bounds record is written only after interpolation and
\* level selection, so a run that failed holds no bounds record.
C12_Original ==
  /\ fs[BoundsFile(variant)] # Absent => (interpolated /\ Selected)
  /\ pc = "failed" => fs[BoundsFile(variant)] = Absent

====
